---- MODULE Spec2Model ----
(***************************************************************************)
(* rcpp_comembership (src/rcpp_comembership.cpp): for a vector of n        *)
(* cluster labels, the 0/1 comembership indicator of every pair i < j,     *)
(* written into a vector of length n*(n-1)/2 by two nested loops and a     *)
(* running index counter.  unsigned long is modelled as a W-bit unsigned   *)
(* integer; every arithmetic result is reduced modulo 2^W as in C++.       *)
(* Positions are 0-based as in the source; the TLA+ sequences that hold    *)
(* the vectors are 1-based, so element k of a vector is seq[k + 1].        *)
(***************************************************************************)
EXTENDS Integers, Sequences, FiniteSets, TLC

\* Width in bits of unsigned long in the model.
W == 3
\* Largest input length explored (at most 2^W - 1, the largest size a
\* W-bit unsigned long can hold).
MaxN == 5
\* Cluster labels are drawn from 1..MaxLabel.
MaxLabel == 2

VARIABLES
    pc,                \* position in rcpp_comembership
    cluster_labels,    \* the caller's label vector (wrapped, not copied)
    n,                 \* unsigned long n
    comembership,      \* the output vector
    idx_comembership,  \* unsigned long idx_comembership
    i,                 \* outer loop variable
    j,                 \* inner loop variable
    overrun,           \* some store went past the end of comembership
    labels0,           \* history: the labels as the caller passed them
    visited            \* history: the (i, j, index) of every inner-loop body run

vars == <<pc, cluster_labels, n, comembership, idx_comembership, i, j,
          overrun, labels0, visited>>

Modulus == 2 ^ W

\* Conversion of an integer to unsigned long.
ULong(x) == ((x % Modulus) + Modulus) % Modulus

LabelValues == 1..MaxLabel

\* The label vectors a caller can pass.
Inputs == UNION {[1..len -> LabelValues] : len \in 0..MaxN}

\* n * (n-1) / 2 as C++ evaluates it on unsigned long: n-1 wraps at n = 0,
\* the product wraps, then the division by 2.
AllocLength_plus(m) == ULong(m * ULong(m + 1)) \div 2
AllocLength(m) == ULong(m * ULong(m - 1)) \div 2

\* Rcpp::NumericVector(len): len elements, all 0.
NewVector(len) == [k \in 1..len |-> 0]

\* The comparison cluster_labels[i] == cluster_labels[j] of exact values.
LabelsEqual(l, a, b) == l[a + 1] = l[b + 1]

\* The first j of row i: j = i + 1.
InnerFirst_diag(a) == ULong(a)
InnerFirst(a) == ULong(a + 1)

\* idx_comembership++
NextIdx(x) == ULong(x + 1)

Init ==
    /\ pc = "start"
    /\ cluster_labels \in Inputs
    /\ labels0 = cluster_labels
    /\ n = 0
    /\ comembership = << >>
    /\ idx_comembership = 0
    /\ i = 0
    /\ j = 0
    /\ overrun = FALSE
    /\ visited = << >>

\* Lines 6-16: wrap the labels, read n, allocate the output, idx = 0, i = 0.
Allocate ==
    /\ pc = "start"
    /\ n' = ULong(Len(cluster_labels))
    /\ comembership' = NewVector(AllocLength(n'))
    /\ idx_comembership' = 0
    /\ i' = 0
    /\ pc' = "outer"
    /\ UNCHANGED <<cluster_labels, j, overrun, labels0, visited>>

\* Line 16, test i < n true: enter the inner loop with j = i + 1.
OuterEnter ==
    /\ pc = "outer"
    /\ i < n
    /\ j' = InnerFirst(i)
    /\ pc' = "inner"
    /\ UNCHANGED <<cluster_labels, n, comembership, idx_comembership, i,
                   overrun, labels0, visited>>

\* Line 16, test i < n false; line 25: return comembership.
OuterExit ==
    /\ pc = "outer"
    /\ ~(i < n)
    /\ pc' = "done"
    /\ UNCHANGED <<cluster_labels, n, comembership, idx_comembership, i, j,
                   overrun, labels0, visited>>

\* What every run of the inner loop body does besides the store.
BodyAdvance ==
    /\ visited' = Append(visited, [i |-> i, j |-> j, idx |-> idx_comembership])
    /\ idx_comembership' = NextIdx(idx_comembership)
    /\ j' = ULong(j + 1)
    /\ UNCHANGED <<n, i, labels0>>

\* Lines 17-21, labels differ: only the counters move.
BodySkip ==
    /\ pc = "inner"
    /\ j < n
    /\ ~LabelsEqual(cluster_labels, i, j)
    /\ BodyAdvance
    /\ UNCHANGED <<pc, cluster_labels, comembership, overrun>>

\* Lines 17-21, labels equal, index inside the vector: store 1.
BodyStore ==
    /\ pc = "inner"
    /\ j < n
    /\ LabelsEqual(cluster_labels, i, j)
    /\ idx_comembership < Len(comembership)
    /\ comembership' = [comembership EXCEPT ![idx_comembership + 1] = 1]
    /\ BodyAdvance
    /\ UNCHANGED <<pc, cluster_labels, overrun>>

\* Lines 17-21, labels equal, index past the end of the vector: the store
\* of 1 through the unchecked operator[] is undefined behaviour.  It lands
\* in memory that is not the vector: nothing the routine reads, or an
\* element of the label vector, or an unmapped page.
BodyStoreOutside ==
    /\ pc = "inner"
    /\ j < n
    /\ LabelsEqual(cluster_labels, i, j)
    /\ ~(idx_comembership < Len(comembership))
    /\ overrun' = TRUE
    /\ \/ /\ BodyAdvance
          /\ UNCHANGED <<pc, cluster_labels, comembership>>
       \/ /\ \E k \in 1..Len(cluster_labels) :
                 cluster_labels' = [cluster_labels EXCEPT ![k] = 1]
          /\ BodyAdvance
          /\ UNCHANGED <<pc, comembership>>
       \/ /\ pc' = "crashed"
          /\ UNCHANGED <<cluster_labels, n, comembership, idx_comembership,
                         i, j, labels0, visited>>

\* Line 17, test j < n false; line 16: i++.
InnerExit ==
    /\ pc = "inner"
    /\ ~(j < n)
    /\ i' = ULong(i + 1)
    /\ pc' = "outer"
    /\ UNCHANGED <<cluster_labels, n, comembership, idx_comembership, j,
                   overrun, labels0, visited>>

Next ==
    \/ Allocate
    \/ OuterEnter
    \/ OuterExit
    \/ BodySkip
    \/ BodyStore
    \/ BodyStoreOutside
    \/ InnerExit

Spec == Init /\ [][Next]_vars

(***************************************************************************)
(* The routine as a function of its argument, for runs in which every      *)
(* store lands in the output vector or is lost: Loops follows the two      *)
(* for loops of lines 16-23 from (a, b) with counter x and output out.     *)
(***************************************************************************)
RECURSIVE Loops(_, _, _, _, _)
Loops(l, out, x, a, b) ==
    IF ~(a < ULong(Len(l))) THEN out
    ELSE IF ~(b < ULong(Len(l))) THEN Loops(l, out, x, a + 1, InnerFirst(a + 1))
    ELSE Loops(l,
               IF LabelsEqual(l, a, b) /\ x < Len(out)
                   THEN [out EXCEPT ![x + 1] = 1] ELSE out,
               NextIdx(x), a, b + 1)

ComembershipOf(l) ==
    Loops(l, NewVector(AllocLength(ULong(Len(l)))), 0, 0, InnerFirst(0))

(***************************************************************************)
(* Vocabulary of the properties.                                           *)
(***************************************************************************)
\* n choose 2 over the integers.
Choose2(m) == (m * (m - 1)) \div 2

\* Number of pairs (a, b), a < b < m, in the rows before row a.
RowOffset(a, m) == a * m - (a * (a + 1)) \div 2

\* Position of the pair (a, b) in (0,1),(0,2),...,(0,m-1),(1,2),...,(m-2,m-1).
LinearIndex(a, b, m) == RowOffset(a, m) + (b - a - 1)

Indicator(l, a, b) == IF l[a + 1] = l[b + 1] THEN 1 ELSE 0

\* The label vector l with every label v replaced by f[v].
Rename(f, l) == [k \in 1..Len(l) |-> f[l[k]]]

Renamings == {f \in [LabelValues -> LabelValues] :
                 \A u, v \in LabelValues : f[u] = f[v] => u = v}

Returned == pc = "done"
Allocated == pc # "start"
RowBegins == pc = "inner" /\ j = i + 1

\* C1: in the returned vector the element at the linear index of every
\* pair i < j is 1 if the two labels are equal and 0 otherwise, and every
\* element is 0 or 1.
C1_PairIndicators ==
    Returned =>
        /\ \A a, b \in 0..(Len(labels0) - 1) :
               a < b =>
                   /\ LinearIndex(a, b, Len(labels0)) < Len(comembership)
                   /\ comembership[LinearIndex(a, b, Len(labels0)) + 1]
                          = Indicator(labels0, a, b)
        /\ \A k \in 1..Len(comembership) : comembership[k] \in {0, 1}

\* C2: for every input length n the output vector has length n(n-1)/2.
C2_OutputLength ==
    Allocated => Len(comembership) = Choose2(Len(labels0))

\* C3: the k-th run of the loop body (k from 0) is on the k-th pair of the
\* canonical enumeration and sees the counter at k; the pairs visited are
\* off the diagonal and distinct, and a finished run has visited all
\* n(n-1)/2 of them.
C3_CanonicalOrder ==
    /\ \A k \in 1..Len(visited) :
           /\ visited[k].i < visited[k].j
           /\ visited[k].j < Len(labels0)
           /\ LinearIndex(visited[k].i, visited[k].j, Len(labels0)) = k - 1
           /\ visited[k].idx = k - 1
    /\ Returned => Len(visited) = Choose2(Len(labels0))

\* C4: for n = 0 and n = 1 the computed length is 0, the loop body is
\* never run, nothing is stored and the run does not fail.
C4_EmptyAndSingleton ==
    Len(labels0) <= 1 =>
        /\ pc # "crashed"
        /\ visited = << >>
        /\ ~overrun
        /\ comembership = << >>
        /\ Allocated => AllocLength(n) = 0 /\ n = Len(labels0)

C4_Witness == Returned /\ Len(labels0) = 0 /\ n = 0 /\ comembership = << >>

\* C5: whenever the true n(n-1)/2 fits in W bits, the allocated length is
\* the true n(n-1)/2.
C5_LengthExactWhenRepresentable ==
    (Allocated /\ Choose2(Len(labels0)) < Modulus) =>
        Len(comembership) = Choose2(Len(labels0))

\* C6: no run allocates a length other than the true n(n-1)/2 and then
\* runs the store loop or returns a vector.
C6_NoWrappedAllocationUsed ==
    (Allocated /\ Len(comembership) # Choose2(Len(labels0))) =>
        (visited = << >> /\ ~Returned)

\* C7: the returned vector is the one the routine computes for every
\* injective renaming of the labels it was passed.
C7_RenamingInvariant ==
    Returned =>
        \A f \in Renamings : comembership = ComembershipOf(Rename(f, labels0))

\* C8: the labels and n never change, and no memory other than the output
\* vector and the counters is stored to.
C8_LabelsReadOnly ==
    /\ cluster_labels = labels0
    /\ Allocated => n = Len(labels0)
    /\ ~overrun

\* C9 as stated: when row i begins the counter is i*n - i*(i+1)/2 - i, and
\* the counter values of distinct rows are disjoint.
C9_RowOffsetAsStated ==
    /\ RowBegins => idx_comembership = ULong(i * n - (i * (i + 1)) \div 2 - i)
    /\ \A k, m \in 1..Len(visited) :
           visited[k].i # visited[m].i => visited[k].idx # visited[m].idx

\* C9 amended: when row i begins the counter is i*n - i*(i+1)/2 modulo 2^W
\* and all body runs so far belong to earlier rows, the k-th of them having
\* seen the counter at k modulo 2^W (each row starts where the previous one
\* ended); the counter values of distinct rows are disjoint whenever
\* n(n-1)/2 is at most 2^W.
C9_RowOffset ==
    /\ RowBegins =>
           /\ idx_comembership = ULong(RowOffset(i, n))
           /\ Len(visited) = RowOffset(i, n)
           /\ \A k \in 1..Len(visited) : visited[k].i < i
    /\ \A k \in 1..Len(visited) : visited[k].idx = ULong(k - 1)
    /\ Choose2(n) <= Modulus =>
           \A k, m \in 1..Len(visited) :
               visited[k].i # visited[m].i => visited[k].idx # visited[m].idx

C9_Witness ==
    /\ RowBegins
    /\ i = 1
    /\ n = 3
    /\ idx_comembership = 2
    /\ Len(visited) = 2

\* C10: every store is at an index below the allocated length, and when
\* the loops finish the counter equals the allocated length.
C10_IndexInBounds ==
    /\ (pc = "inner" /\ j < n /\ LabelsEqual(cluster_labels, i, j)) =>
           idx_comembership < Len(comembership)
    /\ ~overrun
    /\ Returned => idx_comembership = Len(comembership)

====
